---- MODULE Spec2Model ----
(***************************************************************************)
(* The credExplorer application state machine (StateTransitionMachine of   *)
(* src/app/credExplorer/state.js).  The state cell is read and written     *)
(* through getState/setState; loadGraph, runPagerank and                   *)
(* loadGraphAndRunPagerank are async functions that suspend at the await   *)
(* of the loader (loadGraphWithAdapters) or of the scorer (pagerank), so   *)
(* several calls may be in flight at once.  Each call occupies a slot of   *)
(* `ops`; the continuation after an await is one atomic step.              *)
(***************************************************************************)
EXTENDS Integers, FiniteSets, Sequences, TLC

\* Bounds of the model.
MaxOps == 2       \* calls of async operations that may be in flight together
MaxCalls == 5     \* calls of the five methods, all together

\* Opaque values passed through the machine.
Null == "null"
Repos == {"r1", "r2"}
EdgeEvaluators == {"e1", "e2"}
GraphsWithAdapters ==
  {[graph |-> "g1", adapters |-> "a1"], [graph |-> "g2", adapters |-> "a2"]}
PagerankNodeDecompositions == {"p1", "p2"}

Slots == 1..MaxOps

VARIABLES
  state,          \* the state cell behind getState/setState
  ops,            \* per slot: the call in flight in it, with its locals
  asyncCalls,     \* number of async calls made so far
  syncCalls,      \* number of synchronous calls made so far
  lastRepo,       \* argument of the most recent setRepo call (Null: none)
  lastEvaluator,  \* argument of the most recent setEdgeEvaluator call
  last,           \* the most recent step: what ran, on what, with what result
  codec,          \* a run of the address codec (addressToString/stringToAddress)
  cli             \* a run of the command built by makePagerankCommand

machineVars ==
  <<state, ops, asyncCalls, syncCalls, lastRepo, lastEvaluator, last>>
vars == <<state, ops, asyncCalls, syncCalls, lastRepo, lastEvaluator, last,
          codec, cli>>

----------------------------------------------------------------------------
(* The states and the pure pieces of the transition methods.               *)

initialState ==
  [type |-> "UNINITIALIZED", repo |-> Null, edgeEvaluator |-> Null]

ReadyToLoadGraph == [type |-> "READY_TO_LOAD_GRAPH", loading |-> "NOT_LOADING"]

\* Mutant of _maybeInitialize: initializes as soon as one field is set.
_maybeInitializeEither(s) ==
  IF s.repo # Null \/ s.edgeEvaluator # Null
    THEN [type |-> "INITIALIZED", repo |-> s.repo,
          edgeEvaluator |-> s.edgeEvaluator, substate |-> ReadyToLoadGraph]
    ELSE s

_maybeInitialize(s) ==
  IF s.repo # Null /\ s.edgeEvaluator # Null
    THEN [type |-> "INITIALIZED", repo |-> s.repo,
          edgeEvaluator |-> s.edgeEvaluator, substate |-> ReadyToLoadGraph]
    ELSE s

\* Mutant of setRepoState: keeps the substate when the repo changes.
setRepoStateKeepsSubstate(s, repo) ==
  IF s.type = "UNINITIALIZED"
    THEN _maybeInitialize([s EXCEPT !.repo = repo])
    ELSE [s EXCEPT !.repo = repo]

\* Mutant of setRepoState: starts over from an uninitialized state.
setRepoStateStartsOver(s, repo) ==
  IF s.type = "UNINITIALIZED"
    THEN _maybeInitialize([s EXCEPT !.repo = repo])
    ELSE [type |-> "UNINITIALIZED", repo |-> repo, edgeEvaluator |-> Null]

\* The state setRepo(repo) writes when it reads s.
setRepoState(s, repo) ==
  IF s.type = "UNINITIALIZED"
    THEN _maybeInitialize([s EXCEPT !.repo = repo])
    ELSE [s EXCEPT !.repo = repo, !.substate = ReadyToLoadGraph]

\* Mutant of setEdgeEvaluatorState: resets the substate, as setRepo does.
setEdgeEvaluatorStateResets(s, edgeEvaluator) ==
  IF s.type = "UNINITIALIZED"
    THEN _maybeInitialize([s EXCEPT !.edgeEvaluator = edgeEvaluator])
    ELSE [s EXCEPT !.edgeEvaluator = edgeEvaluator,
                   !.substate = ReadyToLoadGraph]

\* The state setEdgeEvaluator(edgeEvaluator) writes when it reads s.
setEdgeEvaluatorState(s, edgeEvaluator) ==
  IF s.type = "UNINITIALIZED"
    THEN _maybeInitialize([s EXCEPT !.edgeEvaluator = edgeEvaluator])
    ELSE [s EXCEPT !.edgeEvaluator = edgeEvaluator]

\* Mutant of loadGraphPrecondition: forgets to look at the substate.
loadGraphPreconditionAnySubstate(s) == s.type = "INITIALIZED"

\* loadGraph throws unless this holds of the state it reads.
loadGraphPrecondition(s) ==
  s.type = "INITIALIZED" /\ s.substate.type = "READY_TO_LOAD_GRAPH"

\* runPagerank throws unless this holds of the state it reads.
runPagerankPrecondition(s) ==
  s.type = "INITIALIZED" /\ s.substate.type # "READY_TO_LOAD_GRAPH"

\* loadGraphAndRunPagerank throws unless this holds of the state it reads.
loadGraphAndRunPagerankPrecondition(s) == s.type # "UNINITIALIZED"

\* {...state, substate: {...substate, loading: "LOADING"}}
loadingState(s) == [s EXCEPT !.substate.loading = "LOADING"]

\* Mutant of failedState: a failure falls back to READY_TO_LOAD_GRAPH.
failedStateDropsData(s) ==
  [s EXCEPT !.substate = [type |-> "READY_TO_LOAD_GRAPH",
                          loading |-> "FAILED"]]

\* {...state, substate: {...substate, loading: "FAILED"}}
failedState(s) == [s EXCEPT !.substate.loading = "FAILED"]

\* Mutant of loadedState: the candidate still says LOADING.
loadedStateStillLoading(s, graphWithAdapters) ==
  [s EXCEPT !.substate = [type |-> "READY_TO_RUN_PAGERANK",
                          graphWithAdapters |-> graphWithAdapters,
                          loading |-> "LOADING"]]

\* The candidate of loadGraph when the loader resolved with graphWithAdapters.
loadedState(s, graphWithAdapters) ==
  [s EXCEPT !.substate = [type |-> "READY_TO_RUN_PAGERANK",
                          graphWithAdapters |-> graphWithAdapters,
                          loading |-> "NOT_LOADING"]]

\* Mutant of evaluatedState: a result already there is kept.
evaluatedStateKeepsResult(s, pagerankNodeDecomposition) ==
  IF s.substate.type = "PAGERANK_EVALUATED"
    THEN [s EXCEPT !.substate.loading = "NOT_LOADING"]
    ELSE [s EXCEPT !.substate =
            [type |-> "PAGERANK_EVALUATED",
             graphWithAdapters |-> s.substate.graphWithAdapters,
             pagerankNodeDecomposition |-> pagerankNodeDecomposition,
             loading |-> "NOT_LOADING"]]

\* The candidate of runPagerank when the scorer resolved.
evaluatedState(s, pagerankNodeDecomposition) ==
  [s EXCEPT !.substate =
     [type |-> "PAGERANK_EVALUATED",
      graphWithAdapters |-> s.substate.graphWithAdapters,
      pagerankNodeDecomposition |-> pagerankNodeDecomposition,
      loading |-> "NOT_LOADING"]]

\* Mutant of deepEqual: the guard always passes.
deepEqualAlways(a, b) == TRUE

\* lodash.isequal on two states: structural equality.
deepEqual(a, b) == a = b

----------------------------------------------------------------------------
(* Calls in flight.                                                        *)

NoState == [type |-> "NONE"]

IdleOp ==
  [op |-> "none",            \* the method that was called
   pc |-> "idle",            \* where the call is suspended
   snap |-> NoState,         \* local `state` of the running sub-operation
   dispatch |-> "none",      \* substate type loadGraphAndRunPagerank read
   loadedGraph |-> "none",   \* what loadGraph resolved to
   threw |-> FALSE,          \* the call was rejected with an Error
   outcome |-> "none",       \* how the awaited collaborator settled
   committed |-> FALSE,      \* the sub-operation wrote its candidate
   mutated |-> FALSE,        \* another operation changed the cell meanwhile
   repoSet |-> FALSE,        \* setRepo was called meanwhile
   repoChanged |-> FALSE,    \* ... and the cell got another repo by it
   lostRace |-> FALSE,       \* a concurrent call of the same method committed
   loaderInvoked |-> FALSE,  \* the call invoked loadGraphWithAdapters
   scorerInvoked |-> FALSE]  \* the call invoked pagerank

Waiting(o) == o.pc \in {"awaitLoader", "awaitScorer"}
Free(o) == o.pc = "idle"
\* A new call takes the lowest slot that holds no call.
Available(i) == Free(ops[i]) /\ \A j \in Slots : j < i => ~Free(ops[j])
SubOp(o) == CASE o.pc = "awaitLoader" -> "loadGraph"
              [] o.pc = "awaitScorer" -> "runPagerank"
              [] OTHER -> "none"

SubstateType(s) == IF s.type = "INITIALIZED" THEN s.substate.type ELSE s.type

\* setState(new) by slot i (0: a synchronous method): what the calls that are
\* waiting on a collaborator get to have witnessed.
Witnessed(i, new, bySetRepo, committer) ==
  [j \in Slots |->
     IF j # i /\ Waiting(ops[j])
       THEN [ops[j] EXCEPT !.mutated = @ \/ (new # state),
                           !.repoSet = @ \/ bySetRepo,
                           !.repoChanged =
                              @ \/ (bySetRepo /\ new.repo # ops[j].snap.repo),
                           !.lostRace = @ \/ (committer = SubOp(ops[j]))]
       ELSE ops[j]]

\* The call of slot i has become c by the step named op: a call that is over
\* leaves its slot, and `last` keeps what the step did.
Becomes(others, i, c, op, arg) ==
  /\ ops' = [others EXCEPT ![i] = IF c.pc = "done" THEN IdleOp ELSE c]
  /\ last' = [op |-> op, pre |-> SubstateType(state), slot |-> i,
              arg |-> arg, call |-> c]

\* The state machine right after construction, on initialState().
MachineInit ==
  /\ state = initialState
  /\ ops = [i \in Slots |-> IdleOp]
  /\ asyncCalls = 0
  /\ syncCalls = 0
  /\ lastRepo = Null
  /\ lastEvaluator = Null
  /\ last = [op |-> "none", pre |-> "none", slot |-> 0, arg |-> Null,
             call |-> IdleOp]

\* No codec run and no command run.
NoCodec == [pc |-> "none"]
NoCli == [pc |-> "none"]

Init ==
  /\ MachineInit
  /\ codec = NoCodec
  /\ cli = NoCli

----------------------------------------------------------------------------
(* Synchronous methods.                                                    *)

setRepo(repo) ==
  /\ asyncCalls + syncCalls < MaxCalls
  /\ syncCalls' = syncCalls + 1
  /\ state' = setRepoState(state, repo)
  /\ ops' = Witnessed(0, setRepoState(state, repo), TRUE, "none")
  /\ lastRepo' = repo
  /\ last' = [op |-> "setRepo", pre |-> SubstateType(state),
              slot |-> 0, arg |-> repo, call |-> IdleOp]
  /\ UNCHANGED <<asyncCalls, lastEvaluator, codec, cli>>

setEdgeEvaluator(edgeEvaluator) ==
  /\ asyncCalls + syncCalls < MaxCalls
  /\ syncCalls' = syncCalls + 1
  /\ state' = setEdgeEvaluatorState(state, edgeEvaluator)
  /\ ops' = Witnessed(0, setEdgeEvaluatorState(state, edgeEvaluator),
                      FALSE, "none")
  /\ lastEvaluator' = edgeEvaluator
  /\ last' = [op |-> "setEdgeEvaluator", pre |-> SubstateType(state),
              slot |-> 0, arg |-> edgeEvaluator, call |-> IdleOp]
  /\ UNCHANGED <<asyncCalls, lastRepo, codec, cli>>

----------------------------------------------------------------------------
(* Asynchronous methods: the part that runs before the await.              *)

\* A call that is rejected by a precondition check.
Thrown(o) ==
  [IdleOp EXCEPT !.op = o.op, !.pc = "done", !.threw = TRUE,
                 !.dispatch = o.dispatch, !.loadedGraph = o.loadedGraph,
                 !.loaderInvoked = o.loaderInvoked]

\* loadGraph up to `await this.loadGraphWithAdapters(assets, repo)`, as the
\* step named op of the call o in slot i.
StartLoadGraph(i, o, op) ==
  IF loadGraphPrecondition(state)
    THEN /\ state' = loadingState(state)
         /\ Becomes(Witnessed(i, loadingState(state), FALSE, "none"), i,
                    [IdleOp EXCEPT !.op = o.op,
                                   !.pc = "awaitLoader",
                                   !.snap = state,
                                   !.dispatch = o.dispatch,
                                   !.loaderInvoked = TRUE],
                    op, Null)
    ELSE /\ state' = state
         /\ Becomes(ops, i, Thrown(o), op, Null)

\* runPagerank up to `await this.pagerank(graph, edgeEvaluator, ...)`.
StartRunPagerank(i, o, op) ==
  IF runPagerankPrecondition(state)
    THEN /\ state' = loadingState(state)
         /\ Becomes(Witnessed(i, loadingState(state), FALSE, "none"), i,
                    [IdleOp EXCEPT !.op = o.op,
                                   !.pc = "awaitScorer",
                                   !.snap = state,
                                   !.dispatch = o.dispatch,
                                   !.loadedGraph = o.loadedGraph,
                                   !.loaderInvoked = o.loaderInvoked,
                                   !.scorerInvoked = TRUE],
                    op, Null)
    ELSE /\ state' = state
         /\ Becomes(ops, i, Thrown(o), op, Null)

loadGraph(i) ==
  /\ Available(i)
  /\ asyncCalls + syncCalls < MaxCalls
  /\ asyncCalls' = asyncCalls + 1
  /\ StartLoadGraph(i, [IdleOp EXCEPT !.op = "loadGraph"], "loadGraph")
  /\ UNCHANGED <<syncCalls, lastRepo, lastEvaluator, codec, cli>>

runPagerank(i) ==
  /\ Available(i)
  /\ asyncCalls + syncCalls < MaxCalls
  /\ asyncCalls' = asyncCalls + 1
  /\ StartRunPagerank(i, [IdleOp EXCEPT !.op = "runPagerank"], "runPagerank")
  /\ UNCHANGED <<syncCalls, lastRepo, lastEvaluator, codec, cli>>

loadGraphAndRunPagerank(i) ==
  LET o == [IdleOp EXCEPT !.op = "loadGraphAndRunPagerank",
                          !.dispatch = SubstateType(state)]
  IN
  /\ Available(i)
  /\ asyncCalls + syncCalls < MaxCalls
  /\ asyncCalls' = asyncCalls + 1
  /\ IF ~loadGraphAndRunPagerankPrecondition(state)
       THEN /\ state' = state
            /\ Becomes(ops, i, Thrown(o), "loadGraphAndRunPagerank", Null)
       ELSE IF state.substate.type = "READY_TO_LOAD_GRAPH"
         THEN StartLoadGraph(i, o, "loadGraphAndRunPagerank")
         ELSE StartRunPagerank(i, o, "loadGraphAndRunPagerank")
  /\ UNCHANGED <<syncCalls, lastRepo, lastEvaluator, codec, cli>>

----------------------------------------------------------------------------
(* Continuations.                                                          *)

\* Where a call goes when its loadGraph has returned.
AfterLoadGraph(o) ==
  IF o.op = "loadGraphAndRunPagerank" THEN "awaitLoadGraph" ELSE "done"

\* loadGraph from the settling of the loader to its return: `candidate` is
\* newState, `success` the local of that name.
FinishLoadGraph(i, candidate, success, outcome, op, arg) ==
  LET o == ops[i] IN
  /\ o.pc = "awaitLoader"
  /\ IF deepEqual(state, loadingState(o.snap))
       THEN /\ state' = candidate
            /\ Becomes(Witnessed(i, candidate, FALSE, "loadGraph"), i,
                       [o EXCEPT !.pc = AfterLoadGraph(o),
                                 !.snap = NoState,
                                 !.outcome = outcome,
                                 !.committed = TRUE,
                                 !.loadedGraph = success],
                       op, arg)
       ELSE /\ state' = state
            /\ Becomes(ops, i,
                       [o EXCEPT !.pc = AfterLoadGraph(o),
                                 !.snap = NoState,
                                 !.outcome = outcome,
                                 !.loadedGraph = "false"],
                       op, arg)
  /\ UNCHANGED <<asyncCalls, syncCalls, lastRepo, lastEvaluator, codec, cli>>

LoaderResolves(i, graphWithAdapters) ==
  FinishLoadGraph(i, loadedState(ops[i].snap, graphWithAdapters),
                  "true", "resolved", "LoaderResolves", graphWithAdapters)

LoaderRejects(i) ==
  FinishLoadGraph(i, failedState(ops[i].snap),
                  "false", "rejected", "LoaderRejects", Null)

\* runPagerank from the settling of the scorer to its return.
FinishRunPagerank(i, candidate, outcome, op, arg) ==
  LET o == ops[i] IN
  /\ o.pc = "awaitScorer"
  /\ IF deepEqual(state, loadingState(o.snap))
       THEN /\ state' = candidate
            /\ Becomes(Witnessed(i, candidate, FALSE, "runPagerank"), i,
                       [o EXCEPT !.pc = "done",
                                 !.snap = NoState,
                                 !.outcome = outcome,
                                 !.committed = TRUE],
                       op, arg)
       ELSE /\ state' = state
            /\ Becomes(ops, i,
                       [o EXCEPT !.pc = "done",
                                 !.snap = NoState,
                                 !.outcome = outcome],
                       op, arg)
  /\ UNCHANGED <<asyncCalls, syncCalls, lastRepo, lastEvaluator, codec, cli>>

ScorerResolves(i, pagerankNodeDecomposition) ==
  FinishRunPagerank(i, evaluatedState(ops[i].snap, pagerankNodeDecomposition),
                    "resolved", "ScorerResolves", pagerankNodeDecomposition)

ScorerRejects(i) ==
  FinishRunPagerank(i, failedState(ops[i].snap),
                    "rejected", "ScorerRejects", Null)

\* Mutant of chains: runPagerank is chained whatever loadGraph resolved to.
chainsAlways(loadedGraph) == TRUE

\* `if (loadedGraph)` of loadGraphAndRunPagerank.
chains(loadedGraph) == loadedGraph = "true"

\* loadGraphAndRunPagerank after `await this.loadGraph(assets)`.
ChainRunPagerank(i) ==
  /\ ops[i].pc = "awaitLoadGraph"
  /\ IF chains(ops[i].loadedGraph)
       THEN StartRunPagerank(i, ops[i], "ChainRunPagerank")
       ELSE /\ state' = state
            /\ Becomes(ops, i, [ops[i] EXCEPT !.pc = "done"],
                       "ChainRunPagerank", Null)
  /\ UNCHANGED <<asyncCalls, syncCalls, lastRepo, lastEvaluator, codec, cli>>

Next ==
  \/ \E repo \in Repos : setRepo(repo)
  \/ \E edgeEvaluator \in EdgeEvaluators : setEdgeEvaluator(edgeEvaluator)
  \/ \E i \in Slots : loadGraph(i)
  \/ \E i \in Slots : runPagerank(i)
  \/ \E i \in Slots : loadGraphAndRunPagerank(i)
  \/ \E i \in Slots, g \in GraphsWithAdapters : LoaderResolves(i, g)
  \/ \E i \in Slots : LoaderRejects(i)
  \/ \E i \in Slots, p \in PagerankNodeDecompositions : ScorerResolves(i, p)
  \/ \E i \in Slots : ScorerRejects(i)
  \/ \E i \in Slots : ChainRunPagerank(i)

Spec == Init /\ [][Next]_vars

----------------------------------------------------------------------------
(* Properties.                                                             *)

Initialized == state.type = "INITIALIZED"
\* The last step was the return of a loadGraph; last.call is that call.
LoadSettled == last.op \in {"LoaderResolves", "LoaderRejects"}
\* The last step was the return of a runPagerank.
PagerankSettled == last.op \in {"ScorerResolves", "ScorerRejects"}

\* C1: when setRepo was called while a loadGraph was waiting for the loader,
\* that loadGraph does not commit its candidate (it leaves the cell as it
\* finds it) and resolves to false, whatever the loader's outcome.
C1_SetRepoDuringLoadDiscards ==
  LoadSettled /\ last.call.repoSet
    => ~last.call.committed /\ last.call.loadedGraph = "false"

\* C2: an async operation writes its candidate only if no other operation
\* changed the state cell between its LOADING write and the settling of its
\* collaborator; otherwise nothing is written and loadGraph resolves to false.
C2_CommitOnlyIfUntouched ==
  (LoadSettled \/ PagerankSettled) /\ last.call.mutated
    => /\ ~last.call.committed
       /\ LoadSettled => last.call.loadedGraph = "false"

\* C3: the repo and edgeEvaluator in the state cell are always the arguments
\* of the most recent setRepo and setEdgeEvaluator calls: no commit of an
\* async operation brings an older value back.
C3_SyncMutationsWin ==
  /\ state.repo = lastRepo
  /\ state.edgeEvaluator = lastEvaluator

\* C3 witness: an async operation that was overtaken by a setRepo of another
\* repo has just settled without committing.
C3_Witness ==
  /\ Initialized
  /\ LoadSettled \/ PagerankSettled
  /\ last.call.repoChanged
  /\ ~last.call.committed

\* C4: of two calls of the same async method in flight together, the one that
\* settles after the other has committed commits nothing (and, for loadGraph,
\* resolves to false), whatever else was called in between.
C4_SecondOfTwoDiscards ==
  (LoadSettled \/ PagerankSettled) /\ last.call.lostRace
    => /\ ~last.call.committed
       /\ LoadSettled => last.call.loadedGraph = "false"

\* C5: while the loader of a loadGraph is pending and nobody else changed the
\* cell, the cell holds the state loadGraph read with loading = LOADING; when
\* the loader then settles, a success with dataset D leaves
\* READY_TO_RUN_PAGERANK{D, NOT_LOADING} and loadGraph resolves to true, a
\* failure leaves READY_TO_LOAD_GRAPH{FAILED} and loadGraph resolves to false.
C5_Pending ==
  \A i \in Slots :
    ops[i].pc = "awaitLoader" /\ ~ops[i].mutated
      => /\ state.type = "INITIALIZED"
         /\ state.repo = ops[i].snap.repo
         /\ state.edgeEvaluator = ops[i].snap.edgeEvaluator
         /\ state.substate =
              [type |-> "READY_TO_LOAD_GRAPH", loading |-> "LOADING"]

C5_Settle ==
  \A i \in Slots :
    ops[i].pc = "awaitLoader" /\ ops'[i].pc # "awaitLoader" /\ ~ops[i].mutated
      => IF last'.op = "LoaderResolves"
           THEN /\ state' =
                     [type |-> "INITIALIZED",
                      repo |-> state.repo,
                      edgeEvaluator |-> state.edgeEvaluator,
                      substate |-> [type |-> "READY_TO_RUN_PAGERANK",
                                    graphWithAdapters |-> last'.arg,
                                    loading |-> "NOT_LOADING"]]
                /\ last'.call.loadedGraph = "true"
           ELSE /\ state' =
                     [type |-> "INITIALIZED",
                      repo |-> state.repo,
                      edgeEvaluator |-> state.edgeEvaluator,
                      substate |-> [type |-> "READY_TO_LOAD_GRAPH",
                                    loading |-> "FAILED"]]
                /\ last'.call.loadedGraph = "false"

C5_UndisturbedLoadCommits == []C5_Pending /\ [][C5_Settle]_vars

\* C5 witness: a loadGraph nobody disturbed has just committed a loaded
\* dataset and resolved to true.
C5_Witness ==
  /\ last.op = "LoaderResolves"
  /\ last.call.op = "loadGraph"
  /\ ~last.call.mutated
  /\ last.call.committed
  /\ last.call.loadedGraph = "true"
  /\ state.substate.type = "READY_TO_RUN_PAGERANK"

\* C6: the state is UNINITIALIZED exactly as long as setRepo or
\* setEdgeEvaluator has not been called yet, however often the other one was;
\* an UNINITIALIZED state never has both fields set; and the step that leaves
\* UNINITIALIZED is a setRepo or setEdgeEvaluator call that produces
\* INITIALIZED with substate READY_TO_LOAD_GRAPH{NOT_LOADING}.
C6_Uninitialized ==
  /\ state.type = "UNINITIALIZED"
       <=> (lastRepo = Null \/ lastEvaluator = Null)
  /\ state.type = "UNINITIALIZED"
       => ~(state.repo # Null /\ state.edgeEvaluator # Null)

C6_Initializes ==
  state.type = "UNINITIALIZED" /\ state'.type # "UNINITIALIZED"
    => /\ last'.op \in {"setRepo", "setEdgeEvaluator"}
       /\ state' = [type |-> "INITIALIZED",
                    repo |-> lastRepo',
                    edgeEvaluator |-> lastEvaluator',
                    substate |-> [type |-> "READY_TO_LOAD_GRAPH",
                                  loading |-> "NOT_LOADING"]]

C6_InitializedWhenBothSet == []C6_Uninitialized /\ [][C6_Initializes]_vars

\* C6 witness: the machine got initialized by the third call, the first two
\* having been calls of the other synchronous method.
C6_Witness ==
  /\ Initialized
  /\ last.pre = "UNINITIALIZED"
  /\ last.op \in {"setRepo", "setEdgeEvaluator"}
  /\ syncCalls = 3
  /\ asyncCalls = 0

\* C7: a step taken in an INITIALIZED state leads to an INITIALIZED state.
C7_InitializedStep == Initialized => state'.type = "INITIALIZED"

C7_InitializedForever == [][C7_InitializedStep]_vars

\* C7 witness: still INITIALIZED after a setRepo overtook a call in flight
\* that then settled and was discarded.
C7_Witness ==
  /\ Initialized
  /\ LoadSettled \/ PagerankSettled
  /\ last.call.repoSet
  /\ ~last.call.committed

\* C8: setRepo(r) in an INITIALIZED state writes INITIALIZED{repo: r, the
\* edgeEvaluator it found, READY_TO_LOAD_GRAPH{NOT_LOADING}}, whatever the
\* substate and the loading status were.
C8_SetRepoStep ==
  last'.op = "setRepo" /\ syncCalls' # syncCalls /\ Initialized
    => state' = [type |-> "INITIALIZED",
                 repo |-> last'.arg,
                 edgeEvaluator |-> state.edgeEvaluator,
                 substate |-> [type |-> "READY_TO_LOAD_GRAPH",
                               loading |-> "NOT_LOADING"]]

C8_SetRepoResetsSubstate ==
  /\ [](last.op = "setRepo" /\ Initialized
          => /\ state.repo = last.arg
             /\ state.substate = [type |-> "READY_TO_LOAD_GRAPH",
                                  loading |-> "NOT_LOADING"])
  /\ [][C8_SetRepoStep]_vars

\* C8 witness: setRepo has just run on a PAGERANK_EVALUATED state.
C8_Witness ==
  /\ last.op = "setRepo"
  /\ last.pre = "PAGERANK_EVALUATED"
  /\ Initialized

\* C9: a loadGraphAndRunPagerank that read READY_TO_LOAD_GRAPH has invoked the
\* loader, and has invoked the scorer only if its loadGraph resolved to true;
\* if its loader failed its loadGraph resolved to false, and with no other
\* operation around the substate is then READY_TO_LOAD_GRAPH{FAILED}.  One
\* that read READY_TO_RUN_PAGERANK or PAGERANK_EVALUATED has invoked the
\* scorer and never the loader.
C9_Call(o) ==
  o.op = "loadGraphAndRunPagerank" /\ o.dispatch # "UNINITIALIZED"
    => IF o.dispatch = "READY_TO_LOAD_GRAPH"
         THEN /\ o.loaderInvoked
              /\ o.scorerInvoked => o.loadedGraph = "true"
              /\ o.outcome = "rejected" /\ ~o.scorerInvoked
                   => o.loadedGraph = "false"
              /\ o.loadedGraph = "false" => ~o.threw
              /\ (/\ o.outcome = "rejected"
                  /\ ~o.scorerInvoked
                  /\ asyncCalls = 1
                  /\ syncCalls = 2)
                   => state.substate = [type |-> "READY_TO_LOAD_GRAPH",
                                        loading |-> "FAILED"]
         ELSE /\ ~o.loaderInvoked
              /\ o.loadedGraph = "none"
              /\ o.scorerInvoked
              /\ ~o.threw

C9_ScorerOnlyAfterLoad ==
  /\ \A i \in Slots : C9_Call(ops[i])
  /\ C9_Call(last.call)

\* C9 witness: a loadGraphAndRunPagerank called in READY_TO_LOAD_GRAPH went
\* through loadGraph and a scorer run to PAGERANK_EVALUATED.
C9_Witness ==
  /\ last.op = "ScorerResolves"
  /\ last.call.op = "loadGraphAndRunPagerank"
  /\ last.call.dispatch = "READY_TO_LOAD_GRAPH"
  /\ last.call.loadedGraph = "true"
  /\ last.call.scorerInvoked
  /\ last.call.committed
  /\ state.substate.type = "PAGERANK_EVALUATED"

\* C10: a loadGraph called outside INITIALIZED/READY_TO_LOAD_GRAPH, a
\* runPagerank called in UNINITIALIZED or READY_TO_LOAD_GRAPH and a
\* loadGraphAndRunPagerank called in UNINITIALIZED are rejected with an error:
\* the call is over, no loader or scorer was invoked and neither the state
\* cell nor any other call was touched.
C10_WrongState ==
  \/ /\ last'.op = "loadGraph"
     /\ ~(Initialized /\ SubstateType(state) = "READY_TO_LOAD_GRAPH")
  \/ /\ last'.op = "runPagerank"
     /\ (~Initialized \/ SubstateType(state) = "READY_TO_LOAD_GRAPH")
  \/ /\ last'.op = "loadGraphAndRunPagerank"
     /\ ~Initialized

C10_Step ==
  asyncCalls' = asyncCalls + 1 /\ C10_WrongState
    => /\ state' = state
       /\ last'.call.threw
       /\ last'.call.pc = "done"
       /\ ~last'.call.loaderInvoked
       /\ ~last'.call.scorerInvoked
       /\ ops' = ops

C10_PreconditionViolationsThrow == [][C10_Step]_vars

\* C10 witness: a loadGraph called on a PAGERANK_EVALUATED state was
\* rejected.
C10_Witness ==
  /\ last.op = "loadGraph"
  /\ last.pre = "PAGERANK_EVALUATED"
  /\ last.call.threw
  /\ Initialized
  /\ state.substate.type = "PAGERANK_EVALUATED"

\* The slot whose call resumes in this step because its loader (resp.
\* scorer) settled.
LoaderSettles(i) == ops[i].pc = "awaitLoader" /\ ops'[i].pc # "awaitLoader"
ScorerSettles(i) == ops[i].pc = "awaitScorer" /\ ops'[i].pc # "awaitScorer"

\* s is t with nothing changed but the loading status, which is FAILED.
OnlyFailed(s, t) ==
  /\ s.type = "INITIALIZED"
  /\ s.repo = t.repo
  /\ s.edgeEvaluator = t.edgeEvaluator
  /\ s.substate.type = t.substate.type
  /\ s.substate.loading = "FAILED"
  /\ t.substate.type # "READY_TO_LOAD_GRAPH"
       => s.substate.graphWithAdapters = t.substate.graphWithAdapters
  /\ t.substate.type = "PAGERANK_EVALUATED"
       => s.substate.pagerankNodeDecomposition
            = t.substate.pagerankNodeDecomposition

\* C11: when the loader or the scorer of a call fails, the call does not
\* throw: loadGraph resolves to false, runPagerank returns, and
\* loadGraphAndRunPagerank returns without chaining; if the guard passes, the
\* state written is the state the operation read with loading = FAILED and
\* nothing else changed (same variant, same dataset, same prior result).
C11_Step ==
  \A i \in Slots :
    /\ LoaderSettles(i) /\ last'.op = "LoaderRejects"
         => /\ ~last'.call.threw
            /\ last'.call.loadedGraph = "false"
            /\ last'.call.committed => OnlyFailed(state', ops[i].snap)
            /\ ~last'.call.committed => state' = state
    /\ ScorerSettles(i) /\ last'.op = "ScorerRejects"
         => /\ ~last'.call.threw
            /\ last'.call.pc = "done"
            /\ last'.call.committed => OnlyFailed(state', ops[i].snap)
            /\ ~last'.call.committed => state' = state
    /\ ops[i].pc = "awaitLoadGraph" /\ ops[i].outcome = "rejected"
       /\ ops'[i] # ops[i]
         => /\ ~last'.call.threw
            /\ last'.call.pc = "done"
            /\ ~last'.call.scorerInvoked
            /\ state' = state

C11_FailuresAreRecorded == [][C11_Step]_vars

\* C11 witness: the scorer of a runPagerank started in PAGERANK_EVALUATED has
\* failed, and the call committed FAILED on the evaluated substate.
C11_Witness ==
  /\ last.op = "ScorerRejects"
  /\ last.pre = "PAGERANK_EVALUATED"
  /\ last.call.committed
  /\ ~last.call.threw
  /\ state.substate.type = "PAGERANK_EVALUATED"
  /\ state.substate.loading = "FAILED"

\* C12: while the scorer of a runPagerank is pending and nobody else changed
\* the cell, the cell holds the state runPagerank read (same variant, dataset
\* and prior result) with loading = LOADING; when the scorer then resolves
\* with R the cell becomes PAGERANK_EVALUATED{D, R, NOT_LOADING} with the
\* dataset D it had.
C12_Pending ==
  \A i \in Slots :
    ops[i].pc = "awaitScorer" /\ ~ops[i].mutated
      => /\ state.type = "INITIALIZED"
         /\ state.repo = ops[i].snap.repo
         /\ state.edgeEvaluator = ops[i].snap.edgeEvaluator
         /\ state.substate.type = ops[i].snap.substate.type
         /\ state.substate.type \in
              {"READY_TO_RUN_PAGERANK", "PAGERANK_EVALUATED"}
         /\ state.substate.graphWithAdapters
              = ops[i].snap.substate.graphWithAdapters
         /\ state.substate.type = "PAGERANK_EVALUATED"
              => state.substate.pagerankNodeDecomposition
                   = ops[i].snap.substate.pagerankNodeDecomposition
         /\ state.substate.loading = "LOADING"

C12_Settle ==
  \A i \in Slots :
    ScorerSettles(i) /\ last'.op = "ScorerResolves" /\ ~ops[i].mutated
      => state' = [type |-> "INITIALIZED",
                   repo |-> state.repo,
                   edgeEvaluator |-> state.edgeEvaluator,
                   substate |->
                     [type |-> "PAGERANK_EVALUATED",
                      graphWithAdapters |-> state.substate.graphWithAdapters,
                      pagerankNodeDecomposition |-> last'.arg,
                      loading |-> "NOT_LOADING"]]

C12_UndisturbedPagerankCommits == []C12_Pending /\ [][C12_Settle]_vars

\* C12 witness: a runPagerank started in PAGERANK_EVALUATED that nobody
\* disturbed has just committed its result.
C12_Witness ==
  /\ last.op = "ScorerResolves"
  /\ last.pre = "PAGERANK_EVALUATED"
  /\ ~last.call.mutated
  /\ last.call.committed
  /\ state.substate.type = "PAGERANK_EVALUATED"
  /\ state.substate.pagerankNodeDecomposition = last.arg
  /\ state.substate.loading = "NOT_LOADING"

\* C13: setEdgeEvaluator(f) leaves repo as it is and sets edgeEvaluator to f;
\* in an INITIALIZED state it leaves the whole substate as it is.
C13_Step ==
  last'.op = "setEdgeEvaluator" /\ syncCalls' # syncCalls
    => /\ state'.repo = state.repo
       /\ state'.edgeEvaluator = last'.arg
       /\ Initialized => /\ state'.type = "INITIALIZED"
                         /\ state'.substate = state.substate

C13_SetEdgeEvaluatorKeepsSubstate == [][C13_Step]_vars

\* C13 witness: setEdgeEvaluator("e2") has just run on a PAGERANK_EVALUATED
\* state.
C13_Witness ==
  /\ last.op = "setEdgeEvaluator"
  /\ last.pre = "PAGERANK_EVALUATED"
  /\ Initialized
  /\ state.substate.type = "PAGERANK_EVALUATED"
  /\ last.arg = "e2"

\* Position of a state in READY_TO_LOAD_GRAPH -> READY_TO_RUN_PAGERANK ->
\* PAGERANK_EVALUATED.
Rank(s) == CASE s.substate.type = "READY_TO_LOAD_GRAPH" -> 0
             [] s.substate.type = "READY_TO_RUN_PAGERANK" -> 1
             [] s.substate.type = "PAGERANK_EVALUATED" -> 2

\* C14: in an INITIALIZED state a step leaves the substate where it is or
\* moves it one place forward in READY_TO_LOAD_GRAPH -> READY_TO_RUN_PAGERANK
\* -> PAGERANK_EVALUATED, unless the step is a setRepo call; no return of a
\* loadGraph or runPagerank moves it backward.
C14_Step ==
  Initialized /\ last'.op # "setRepo"
    => /\ Rank(state') >= Rank(state)
       /\ Rank(state') <= Rank(state) + 1

C14_SubstateAdvances == [][C14_Step]_vars

\* C14 witness: a loadGraph that lost its race has just returned while the
\* state was already PAGERANK_EVALUATED.
C14_Witness ==
  /\ LoadSettled
  /\ last.pre = "PAGERANK_EVALUATED"
  /\ ~last.call.committed
  /\ state.substate.type = "PAGERANK_EVALUATED"

\* The dataset and the pagerank result a state holds, if any.
NoDataset == [graph |-> "none", adapters |-> "none"]
DatasetOf(s) ==
  IF s.type = "INITIALIZED" /\ s.substate.type # "READY_TO_LOAD_GRAPH"
    THEN s.substate.graphWithAdapters ELSE NoDataset
ResultOf(s) ==
  IF s.type = "INITIALIZED" /\ s.substate.type = "PAGERANK_EVALUATED"
    THEN s.substate.pagerankNodeDecomposition ELSE "none"

\* The arguments a waiting call gave to its collaborator.
loaderRepo(o) == o.snap.repo
scorerGraph(o) == o.snap.substate.graphWithAdapters.graph

\* C17: whenever a step puts a dataset into the state cell, or leaves one
\* there while the repo changes, the step is the return of a loadGraph whose
\* loader was invoked with the repo now in the cell and resolved with that
\* dataset; whenever a step puts a pagerank result into the cell, or leaves
\* one there while the dataset changes, it is the return of a runPagerank
\* whose scorer was invoked on the graph of the dataset now in the cell and
\* resolved with that result.  So every dataset in the cell was loaded for
\* the cell's repo and every result was computed on the cell's dataset.
C17_Step ==
  /\ (/\ DatasetOf(state') # NoDataset
      /\ DatasetOf(state') # DatasetOf(state) \/ state'.repo # state.repo)
       => /\ last'.op = "LoaderResolves"
          /\ last'.arg = DatasetOf(state')
          /\ LoaderSettles(last'.slot)
          /\ loaderRepo(ops[last'.slot]) = state'.repo
  /\ (/\ ResultOf(state') # "none"
      /\ ResultOf(state') # ResultOf(state)
           \/ DatasetOf(state') # DatasetOf(state))
       => /\ last'.op = "ScorerResolves"
          /\ last'.arg = ResultOf(state')
          /\ ScorerSettles(last'.slot)
          /\ scorerGraph(ops[last'.slot]) = DatasetOf(state').graph

C17_NoSupersededResults == [][C17_Step]_vars

\* C17 witness: a loadGraph started for another repo than the one now in the
\* cell has just returned, and the cell holds a dataset loaded meanwhile.
C17_Witness ==
  /\ LoadSettled
  /\ last.call.repoChanged
  /\ ~last.call.committed
  /\ Initialized
  /\ state.substate.type = "READY_TO_RUN_PAGERANK"

\* C18: whenever no loadGraph or runPagerank is waiting for its collaborator,
\* the loading status in the state cell is not LOADING.
C18_LoadingMeansInFlight ==
  Initialized /\ (\A i \in Slots : ~Waiting(ops[i]))
    => state.substate.loading # "LOADING"

\* C19: a loadGraphAndRunPagerank called in an INITIALIZED state never ends
\* with a precondition error: when its loadGraph has resolved to true, the
\* chained runPagerank finds READY_TO_RUN_PAGERANK or PAGERANK_EVALUATED.
C19_CompositeNeverThrows ==
  /\ last.call.op = "loadGraphAndRunPagerank"
  /\ last.call.dispatch # "UNINITIALIZED"
  => ~last.call.threw

\* ---------------------------------------------------------------------------
\* The address codec: addressToString and stringToAddress.
\* A string is a sequence of characters; "$" is the delimiter.
\* ---------------------------------------------------------------------------

MaxFieldLen == 2
MaxStrLen == 4

Chars == {"a", "b", "$"}
StringsUpTo(n) == UNION {[1..k -> Chars] : k \in 0..n}
Addresses ==
  [pluginName : StringsUpTo(MaxFieldLen),
   repositoryName : StringsUpTo(MaxFieldLen),
   id : StringsUpTo(MaxFieldLen)]
NoAddress == [pluginName |-> <<>>, repositoryName |-> <<>>, id |-> <<>>]

\* String.prototype.includes for a one-character needle.
includes(string, c) == \E i \in 1..Len(string) : string[i] = c

\* String.prototype.split for a one-character separator: the pieces between
\* the separators, empty pieces kept; a string without separator is one piece.
RECURSIVE split(_, _)
split(string, c) ==
  IF ~includes(string, c)
    THEN <<string>>
    ELSE LET i == CHOOSE k \in 1..Len(string) :
                    string[k] = c /\ \A j \in 1..(k - 1) : string[j] # c
         IN  <<SubSeq(string, 1, i - 1)>>
               \o split(SubSeq(string, i + 1, Len(string)), c)

\* The outcome of a call: the field named in the error message when it
\* threw ("none" when it returned) and the value it returned.
StringThrew(field) == [threw |-> field, value |-> <<>>]
StringReturned(string) == [threw |-> "none", value |-> string]
AddressThrew == [threw |-> "string", value |-> NoAddress]
AddressReturned(a) == [threw |-> "none", value |-> a]

addressToStringUncheckedId(address) ==
  IF includes(address.pluginName, "$") THEN StringThrew("pluginName")
  ELSE IF includes(address.repositoryName, "$")
    THEN StringThrew("repositoryName")
  ELSE StringReturned(address.pluginName \o <<"$">>
                        \o address.repositoryName \o <<"$">> \o address.id)

addressToString(address) ==
  IF includes(address.pluginName, "$") THEN StringThrew("pluginName")
  ELSE IF includes(address.repositoryName, "$")
    THEN StringThrew("repositoryName")
  ELSE IF includes(address.id, "$") THEN StringThrew("id")
  ELSE StringReturned(address.pluginName \o <<"$">>
                        \o address.repositoryName \o <<"$">> \o address.id)

stringToAddressRepoFirst(string) ==
  LET parts == split(string, "$")
  IN  IF Len(parts) # 3
        THEN AddressThrew
        ELSE AddressReturned([pluginName |-> parts[2],
                              repositoryName |-> parts[1],
                              id |-> parts[3]])

stringToAddress(string) ==
  LET parts == split(string, "$")
  IN  IF Len(parts) # 3
        THEN AddressThrew
        ELSE AddressReturned([pluginName |-> parts[1],
                              repositoryName |-> parts[2],
                              id |-> parts[3]])

\* codec records one use of the codec: the address given to addressToString
\* and its outcome, the string given to stringToAddress and its outcome.
CodecCall(pc, address, encoded, string, decoded) ==
  [pc |-> pc, address |-> address, encoded |-> encoded,
   string |-> string, decoded |-> decoded]

\* addressToString(address) is called, for any address.
EncodeAddress ==
  /\ codec = NoCodec
  /\ \E address \in Addresses :
       codec' = CodecCall("encoded", address, addressToString(address),
                          <<>>, AddressThrew)
  /\ UNCHANGED <<machineVars, cli>>

\* stringToAddress is called on the string addressToString returned.
DecodeEncoded ==
  /\ codec.pc = "encoded"
  /\ codec.encoded.threw = "none"
  /\ codec' = CodecCall("decoded", codec.address, codec.encoded,
                        codec.encoded.value,
                        stringToAddress(codec.encoded.value))
  /\ UNCHANGED <<machineVars, cli>>

\* stringToAddress(string) is called, for any string.
DecodeString ==
  /\ codec = NoCodec
  /\ \E string \in StringsUpTo(MaxStrLen) :
       codec' = CodecCall("parsed", NoAddress, StringThrew("none"), string,
                          stringToAddress(string))
  /\ UNCHANGED <<machineVars, cli>>

CodecNext ==
  \/ EncodeAddress
  \/ DecodeEncoded
  \/ DecodeString

CodecSpec == Init /\ [][CodecNext]_vars

DelimiterFree(address) ==
  /\ ~includes(address.pluginName, "$")
  /\ ~includes(address.repositoryName, "$")
  /\ ~includes(address.id, "$")

\* C15: for every address whose three fields contain no "$" (empty fields
\* included), addressToString returns a string, and stringToAddress of that
\* string returns an address with the same pluginName, repositoryName and id.
C15_RoundTrip ==
  /\ codec.pc = "encoded" /\ DelimiterFree(codec.address)
       => codec.encoded.threw = "none"
  /\ codec.pc = "decoded"
       => /\ DelimiterFree(codec.address)
          /\ codec.decoded.threw = "none"
          /\ codec.decoded.value.pluginName = codec.address.pluginName
          /\ codec.decoded.value.repositoryName
               = codec.address.repositoryName
          /\ codec.decoded.value.id = codec.address.id

\* C15 witness: an address with an empty id and an empty repositoryName has
\* made the round trip.
C15_Witness ==
  /\ codec.pc = "decoded"
  /\ codec.address.pluginName = <<"a", "b">>
  /\ codec.address.repositoryName = <<>>
  /\ codec.address.id = <<>>
  /\ codec.decoded.value = codec.address

Delimiters(string) == Cardinality({i \in 1..Len(string) : string[i] = "$"})

\* C16: addressToString throws, and returns no string, whenever one of
\* pluginName, repositoryName and id contains "$"; stringToAddress throws
\* whenever its input holds a number of "$" other than two, and otherwise
\* returns the text before the first "$" as pluginName, the text between the
\* two as repositoryName and the text after the second as id.
C16_MalformedInputFails ==
  /\ codec.pc = "encoded" /\ ~DelimiterFree(codec.address)
       => codec.encoded.threw # "none" /\ codec.encoded.value = <<>>
  /\ codec.pc = "parsed" /\ Delimiters(codec.string) # 2
       => codec.decoded.threw # "none"
  /\ codec.pc = "parsed" /\ Delimiters(codec.string) = 2
       => /\ codec.decoded.threw = "none"
          /\ DelimiterFree(codec.decoded.value)
          /\ codec.string
               = codec.decoded.value.pluginName \o <<"$">>
                   \o codec.decoded.value.repositoryName \o <<"$">>
                   \o codec.decoded.value.id

\* C16 witness: addressToString has thrown for an address whose id alone
\* contains "$".
C16_Witness ==
  /\ codec.pc = "encoded"
  /\ codec.address.pluginName = <<"a">>
  /\ codec.address.repositoryName = <<"b">>
  /\ codec.address.id = <<"a", "$">>
  /\ codec.encoded.threw = "id"

\* ---------------------------------------------------------------------------
\* The command built by makePagerankCommand(loader, pagerankRunner, saver).
\* ---------------------------------------------------------------------------

MaxArgs == 3

RepoStrings == {"o/a", "o/b"}
ArgStrings == RepoStrings \cup {"--help"}
ArgLists == UNION {[1..k -> ArgStrings] : k \in 0..MaxArgs}
Graphs == {"g1", "g2"}
LoadGraphResults ==
  [status : {"SUCCESS"}, graph : Graphs]
    \cup [status : {"REPO_NOT_LOADED", "PLUGIN_FAILURE"}, graph : {"none"}]
NoResult == [status |-> "none", graph |-> "none"]
PagerankGraphs == {"pg1", "pg2"}

\* stringToRepoId is imported; its body is not part of the command.  The
\* RepoId it returns is an opaque value made from the string, and it may
\* throw: the strings it rejects are an input of the run.
NoRepoId == [repoId |-> "null"]
stringToRepoId(string) == [repoId |-> string]

\* One pass of the loop body over args[i]: what happens to the command.
scanStepLastIdWins(arg, repoId, invalid) ==
  IF arg = "--help" THEN "usage"
  ELSE IF arg \in invalid THEN "threw"
  ELSE "next"

scanStep(arg, repoId, invalid) ==
  IF arg = "--help" THEN "usage"
  ELSE IF repoId # NoRepoId THEN "multiple"
  ELSE IF arg \in invalid THEN "threw"
  ELSE "next"

\* The loop over args from index i on, and the check after it.
RECURSIVE scanArgs(_, _, _, _)
scanArgs(args, i, repoId, invalid) ==
  IF i > Len(args)
    THEN [kind |-> IF repoId = NoRepoId THEN "missing" ELSE "load",
          repoId |-> repoId]
    ELSE LET step == scanStep(args[i], repoId, invalid)
         IN  IF step = "next"
               THEN scanArgs(args, i + 1, stringToRepoId(args[i]), invalid)
               ELSE [kind |-> step, repoId |-> repoId]

die == 1

\* cli is one run of the command: where it is, its arguments, the calls it
\* made to its three collaborators and what they gave back, and the code it
\* returned.
CliRun(args) ==
  [pc |-> "scanning", args |-> args, repoId |-> NoRepoId,
   usagePrinted |-> FALSE, returned |-> FALSE, ret |-> 0,
   loaderCalls |-> <<>>, result |-> NoResult,
   runnerCalls |-> <<>>, runnerCompleted |-> FALSE, pagerankGraph |-> "none",
   saverCalls |-> <<>>, saverCompleted |-> FALSE]

Returns(run, code) == [run EXCEPT !.pc = "returned", !.returned = TRUE,
                                  !.ret = code]
Rejects(run) == [run EXCEPT !.pc = "rejected"]

\* pagerank(args, std) up to its first await or its return.
pagerank(args, invalid) ==
  /\ cli = NoCli
  /\ LET scan == scanArgs(args, 1, NoRepoId, invalid)
         run == [CliRun(args) EXCEPT !.repoId = scan.repoId]
     IN  cli' =
           CASE scan.kind = "usage" ->
                  Returns([run EXCEPT !.usagePrinted = TRUE], 0)
             [] scan.kind \in {"multiple", "missing"} -> Returns(run, die)
             [] scan.kind = "threw" -> Rejects(run)
             [] scan.kind = "load" ->
                  [run EXCEPT !.pc = "awaitLoader",
                              !.loaderCalls = <<scan.repoId>>]
  /\ UNCHANGED <<machineVars, codec>>

\* loader(repoId) resolves: the switch on result.status.
CliLoaderResolves(result) ==
  /\ cli.pc = "awaitLoader"
  /\ LET run == [cli EXCEPT !.result = result]
     IN  cli' =
           IF result.status = "SUCCESS"
             THEN [run EXCEPT !.pc = "awaitRunner",
                              !.runnerCalls = <<result.graph>>]
             ELSE Returns(run, 1)
  /\ UNCHANGED <<machineVars, codec>>

CliLoaderRejects ==
  /\ cli.pc = "awaitLoader"
  /\ cli' = Rejects(cli)
  /\ UNCHANGED <<machineVars, codec>>

\* pagerankRunner(result.graph) resolves: saver is called.
RunnerResolves(pagerankGraph) ==
  /\ cli.pc = "awaitRunner"
  /\ cli' = [cli EXCEPT !.pc = "awaitSaver",
                        !.runnerCompleted = TRUE,
                        !.pagerankGraph = pagerankGraph,
                        !.saverCalls = <<<<cli.repoId, pagerankGraph>>>>]
  /\ UNCHANGED <<machineVars, codec>>

RunnerRejects ==
  /\ cli.pc = "awaitRunner"
  /\ cli' = Rejects(cli)
  /\ UNCHANGED <<machineVars, codec>>

SaverResolves ==
  /\ cli.pc = "awaitSaver"
  /\ cli' = Returns([cli EXCEPT !.saverCompleted = TRUE], 0)
  /\ UNCHANGED <<machineVars, codec>>

SaverRejects ==
  /\ cli.pc = "awaitSaver"
  /\ cli' = Rejects(cli)
  /\ UNCHANGED <<machineVars, codec>>

CliNext ==
  \/ \E args \in ArgLists, invalid \in SUBSET RepoStrings :
       pagerank(args, invalid)
  \/ \E result \in LoadGraphResults : CliLoaderResolves(result)
  \/ CliLoaderRejects
  \/ \E pagerankGraph \in PagerankGraphs : RunnerResolves(pagerankGraph)
  \/ RunnerRejects
  \/ SaverResolves
  \/ SaverRejects

CliSpec == Init /\ [][CliNext]_vars

Invoked == cli.pc # "none"
HelpGiven(args) == \E i \in 1..Len(args) : args[i] = "--help"
RepoIdsGiven(args) == Cardinality({i \in 1..Len(args) : args[i] # "--help"})
RepoIdsBefore(args, i) ==
  Cardinality({j \in 1..(i - 1) : args[j] # "--help"})
\* The scan meets --help before it meets a second repository ID.
HelpReached(args) ==
  \E i \in 1..Len(args) : args[i] = "--help" /\ RepoIdsBefore(args, i) <= 1
\* The scan meets a second repository ID before it meets --help.
SecondIdReached(args) ==
  \E i \in 1..Len(args) :
    /\ args[i] # "--help"
    /\ RepoIdsBefore(args, i) = 1
    /\ \A j \in 1..(i - 1) : args[j] # "--help"

\* The part of C20 that does not depend on how --help and repository IDs
\* mix: the loader is called at most once, only with exactly one repository
\* ID and no --help, with that ID; pagerankRunner only after the loader
\* returned SUCCESS, on the graph it returned; saver only after
\* pagerankRunner completed, with the loader's repo ID and the runner's
\* result; REPO_NOT_LOADED and PLUGIN_FAILURE return 1 without runner or
\* saver.
CliFixedOrder ==
  /\ Len(cli.loaderCalls) <= 1
  /\ cli.loaderCalls # <<>>
       => /\ RepoIdsGiven(cli.args) = 1
          /\ ~HelpGiven(cli.args)
          /\ \E i \in 1..Len(cli.args) :
               cli.loaderCalls[1] = stringToRepoId(cli.args[i])
  /\ cli.runnerCalls # <<>>
       => /\ cli.loaderCalls # <<>>
          /\ cli.result.status = "SUCCESS"
          /\ cli.runnerCalls = <<cli.result.graph>>
  /\ cli.saverCalls # <<>>
       => /\ cli.runnerCompleted
          /\ cli.saverCalls = <<<<cli.loaderCalls[1], cli.pagerankGraph>>>>
  /\ cli.saverCompleted => cli.saverCalls # <<>>
  /\ cli.result.status \in {"REPO_NOT_LOADED", "PLUGIN_FAILURE"}
       => /\ cli.returned /\ cli.ret = 1
          /\ cli.runnerCalls = <<>> /\ cli.saverCalls = <<>>

\* C20: the steps of the command run in a fixed order and stop at the first
\* failure (CliFixedOrder); with no repository ID, or with more than one, the
\* command returns 1 without calling the loader; with --help among the
\* arguments it returns 0 without calling the loader; and it returns 0
\* exactly when the saver completed or --help was given.
C20_FixedOrderAndCodes ==
  Invoked =>
    /\ CliFixedOrder
    /\ cli.returned /\ HelpGiven(cli.args)
         => cli.ret = 0 /\ cli.loaderCalls = <<>>
    /\ cli.returned /\ ~HelpGiven(cli.args) /\ RepoIdsGiven(cli.args) # 1
         => cli.ret = 1 /\ cli.loaderCalls = <<>>
    /\ cli.returned
         => (cli.ret = 0 <=> cli.saverCompleted \/ HelpGiven(cli.args))

\* C20, amended: the steps run in a fixed order and stop at the first failure
\* (CliFixedOrder); the arguments are scanned left to right and the first of
\* --help and a second repository ID decides: when --help comes first the
\* command prints the usage and returns 0, when a second repository ID comes
\* first it returns 1 even if --help follows, and with no argument at all
\* that is a repository ID or --help it returns 1, each without calling the
\* loader; a command that returns, returns 0 exactly when the saver completed
\* or the scan reached --help.
C20_FixedOrderAndCodesByScan ==
  Invoked =>
    /\ CliFixedOrder
    /\ cli.returned /\ HelpReached(cli.args)
         => cli.ret = 0 /\ cli.usagePrinted /\ cli.loaderCalls = <<>>
    /\ cli.returned /\ SecondIdReached(cli.args)
         => cli.ret = 1 /\ ~cli.usagePrinted /\ cli.loaderCalls = <<>>
    /\ cli.returned /\ cli.args = <<>>
         => cli.ret = 1 /\ cli.loaderCalls = <<>>
    /\ cli.returned
         => (cli.ret = 0 <=> cli.saverCompleted \/ HelpReached(cli.args))

\* C20 witness: the command was given two repository IDs and then --help,
\* and returned 1 without printing the usage.
C20_Witness ==
  /\ Invoked
  /\ cli.args = <<"o/a", "o/b", "--help">>
  /\ cli.returned
  /\ cli.ret = 1
  /\ cli.loaderCalls = <<>>

====
